---- MODULE Spec2Model ----
(***************************************************************************)
(* Model of robot_localization/pf.py: the ParticleFilter node.             *)
(*                                                                         *)
(* Two threads share the node's attributes:                                *)
(*   - the estimation thread (loop_wrapper -> run_loop), modelled by the   *)
(*     rl_* variables, one action per statement group that touches shared  *)
(*     state (the Python interpreter may switch threads between any two    *)
(*     of them);                                                           *)
(*   - the executor thread (rclpy.spin), which runs scan_received,         *)
(*     update_initial_pose and the pub_latest_transform timer one at a     *)
(*     time, modelled by the cb_* variables.                               *)
(*                                                                         *)
(* Abstractions: a particle's (x, y) is one map cell, 0 being occupied or  *)
(* off the map and 1 free; every Gaussian draw (randn) can land a particle *)
(* in any cell; a weight is kept by its sign; time stamps are the scans'   *)
(* sequence numbers.                                                       *)
(***************************************************************************)
EXTENDS Integers, Sequences, FiniteSets, TLC

\* Python's None: the time stamp 0, the scan NoScan, the empty tuple for a pose
\* or a duration, -1 for a cell or a count
NoScan == [stamp |-> 0, beams |-> 0]

\* ---- bounds of the model ----
MaxParticles == 2     \* the largest initial n_particles (300 in the code, scaled down)
MaxScans == 3         \* scans delivered by the lidar
MaxResets == 1        \* initialpose messages delivered
MaxStep == 2          \* odometry coordinates of the gating check: 0..MaxStep on each axis
MaxExact == 2         \* the largest population of the exact cycle

\* ---- program constants ----
DecayNum == 98        \* particle_decay_rate = 0.98 = DecayNum / DecayDen
DecayDen == 100
d_thresh == 1         \* 0.02 m, in units of 2 cm
a_thresh == 1         \* pi/6 rad, in units of pi/6
HalfTurn == 6         \* pi, in units of pi/6 (math.pi of line 88)

\* ---- the inputs' domains ----
\* the map: cell 1 is free, cell 0 stands for every occupied, unknown or
\* off-map position
FreeCells == {1}
Cells == {0} \cup FreeCells
\* the number of measurements of a scan: an empty scan, or one beam
ScanSizes == {0, 1}
\* the (x, y, theta) triples convert_pose_to_xy_and_theta can return, x in
\* units of 2 cm
OdomPoses == {<<x, 0, 0>> : x \in {0, 1, 2}}

\* occupancy_field.is_free_position
is_free_position(x) == x \in FreeCells

\* ---- weights ----
\* In this model of the two threads a weight is kept by its sign only: 0, or 1
\* for any positive weight. Scaling by a positive sum keeps the sign.
Sign(v) == IF v > 0 THEN 1 ELSE 0

\* the sign of sum([p.w for p in self.particle_cloud])
RECURSIVE WeightSum(_)
WeightSum(cloud) ==
    IF cloud = <<>> THEN 0 ELSE Sign(Head(cloud).w + WeightSum(Tail(cloud)))

\* class Particle: x is the map cell, w the weight, src the number of the
\* pose reset that created it (0: created by the free-space initialization)
Particle(x, w, src) == [x |-> x, w |-> w, src |-> src]

\* the cell of coordinate v: every coordinate outside the free cells is cell 0
CellOf(v) == IF v \in FreeCells THEN v ELSE 0

\* the weight normalize_particles gives a particle (lines 321-324)
normalize_weight(w, weight_sum, n) ==
    IF weight_sum = 0 THEN Sign(1) ELSE w

RemoveAt(s, i) == SubSeq(s, 1, i - 1) \o SubSeq(s, i + 1, Len(s))

\* np.argmax over the weights: the indices that can hold the maximum, which
\* are those of positive weight, or the first index when every weight is 0
ArgMax(cloud) ==
    LET pos == {i \in 1..Len(cloud) : cloud[i].w > 0}
    IN  IF pos = {} THEN {1} ELSE pos

\* the count rounded up instead of truncated
DecayedCountCeil(n) == (n * DecayNum + DecayDen - 1) \div DecayDen

\* int(self.n_particles * self.particle_decay_rate)
DecayedCount(n) == (n * DecayNum) \div DecayDen

VARIABLES
    scan_to_process,        \* NoScan or the pending scan [stamp, beams]
    last_scan_timestamp,    \* 0 (None) or the stamp of the last scan received
    particle_cloud,         \* the list self.particle_cloud refers to
    n_particles,
    current_odom_xy_theta,  \* <<>> (the empty list) or the stored odometry snapshot
    odom_pose,              \* self.odom_pose
    robot_pose,             \* -1 (unset) or the cell of the last pose estimate
    translation,            \* TFHelper: TRUE once fix_map_to_odom_transform stored a correction
    tf_requested,           \* TRUE once send_last_map_to_odom_transform has been called
    tf_sent,                \* TRUE once a map->odom transform has been broadcast
    particle_pub,           \* 0 (nothing published) or the stamp of the last PoseArray published
    rl_pc,                  \* estimation thread: position in run_loop
    rl_msg,                 \* run_loop's local msg
    rl_lookup,              \* run_loop's local (new_pose, delta_t)
    rl_k,                   \* particles the running loop still has to append
    rl_it,                  \* run_loop's list iterator [ref, i, old]
    rl_weight_sum,          \* normalize_particles' local weight_sum
    rl_sample,              \* resample_particles' random_sample (copies still to append)
    rl_n0,                  \* n_particles when the current full cycle began, or -1
    cb_pc,                  \* executor thread: position in update_initial_pose
    cb_k,                   \* iterations left of `for _ in range(self.n_particles)`
    cb_it,                  \* the callback's list iterator
    cb_weight_sum,
    clock,                  \* scans delivered so far
    resets                  \* pose resets started so far

vars == <<scan_to_process, last_scan_timestamp, particle_cloud, n_particles,
          current_odom_xy_theta, odom_pose, robot_pose, translation, tf_requested, tf_sent,
          particle_pub, rl_pc, rl_msg, rl_lookup, rl_k, rl_it, rl_weight_sum, rl_sample, rl_n0,
          cb_pc, cb_k, cb_it, cb_weight_sum, clock, resets>>

nodeVars == <<scan_to_process, last_scan_timestamp, particle_cloud, n_particles,
              current_odom_xy_theta, odom_pose, robot_pose, translation, tf_requested, tf_sent,
              particle_pub>>
rlVars == <<rl_pc, rl_msg, rl_lookup, rl_k, rl_it, rl_weight_sum, rl_sample, rl_n0>>
cbVars == <<cb_pc, cb_k, cb_it, cb_weight_sum>>

\* An iterator over a list object: ref = "cur" while that object is still the
\* one self.particle_cloud refers to, "old" once the other thread has rebound
\* the attribute (old then holds the detached list), "none" when not iterating.
NoIter == [ref |-> "none", i |-> 0, old |-> <<>>]
NewIter == [ref |-> "cur", i |-> 0, old |-> <<>>]
IterList(it) == IF it.ref = "cur" THEN particle_cloud ELSE it.old
\* the other thread's iterator after `self.particle_cloud = []`
Detached(it) == IF it.ref = "cur" THEN [it EXCEPT !.ref = "old", !.old = particle_cloud]
                ELSE it

Abs(v) == IF v < 0 THEN -v ELSE v

\* the gate with >= in place of >
moved_far_enough_inclusive(new_odom_xy_theta) ==
    \/ Abs(new_odom_xy_theta[1] - current_odom_xy_theta[1]) >= d_thresh
    \/ Abs(new_odom_xy_theta[2] - current_odom_xy_theta[2]) >= d_thresh
    \/ Abs(new_odom_xy_theta[3] - current_odom_xy_theta[3]) >= a_thresh

\* ParticleFilter.moved_far_enough_to_update
moved_far_enough_to_update(new_odom_xy_theta) ==
    \/ Abs(new_odom_xy_theta[1] - current_odom_xy_theta[1]) > d_thresh
    \/ Abs(new_odom_xy_theta[2] - current_odom_xy_theta[2]) > d_thresh
    \/ Abs(new_odom_xy_theta[3] - current_odom_xy_theta[3]) > a_thresh

-----------------------------------------------------------------------------
(* The executor thread: one callback at a time.                            *)

\* scan_received without its test of the slot: the last writer wins
scan_received_overwrite(beams) ==
    /\ cb_pc = "idle"
    /\ clock < MaxScans
    /\ clock' = clock + 1
    /\ last_scan_timestamp' = clock + 1
    /\ scan_to_process' = [stamp |-> clock + 1, beams |-> beams]
    /\ UNCHANGED <<particle_cloud, n_particles, current_odom_xy_theta, odom_pose,
                   robot_pose, translation, tf_requested, tf_sent, particle_pub, resets>>
    /\ UNCHANGED rlVars
    /\ UNCHANGED cbVars

\* ParticleFilter.scan_received, for a scan of `beams` measurements
scan_received(beams) ==
    /\ cb_pc = "idle"
    /\ clock < MaxScans
    /\ clock' = clock + 1
    /\ last_scan_timestamp' = clock + 1
    /\ scan_to_process' = IF scan_to_process = NoScan
                          THEN [stamp |-> clock + 1, beams |-> beams]
                          ELSE scan_to_process
    /\ UNCHANGED <<particle_cloud, n_particles, current_odom_xy_theta, odom_pose,
                   robot_pose, translation, tf_requested, tf_sent, particle_pub, resets>>
    /\ UNCHANGED rlVars
    /\ UNCHANGED cbVars

ScanReceived == \E beams \in ScanSizes : scan_received(beams)

\* TFHelper.send_last_map_to_odom_transform: broadcasts the stored correction,
\* if there is one
send_last_map_to_odom_transform(timestamp) ==
    /\ tf_requested' = TRUE
    /\ tf_sent' = (tf_sent \/ translation)

\* ParticleFilter.pub_latest_transform (the 0.05 s timer)
pub_latest_transform ==
    /\ cb_pc = "idle"
    /\ IF last_scan_timestamp = 0
       THEN UNCHANGED <<tf_requested, tf_sent>>
       ELSE send_last_map_to_odom_transform(last_scan_timestamp)
    /\ UNCHANGED <<scan_to_process, last_scan_timestamp, particle_cloud, n_particles,
                   current_odom_xy_theta, odom_pose, robot_pose, translation,
                   particle_pub, clock, resets>>
    /\ UNCHANGED rlVars
    /\ UNCHANGED cbVars

\* ParticleFilter.update_initial_pose -> initialize_particle_cloud, lines 303-306:
\* rebinds self.particle_cloud to a new list and evaluates range(self.n_particles)
InitialPoseBegin ==
    /\ cb_pc = "idle"
    /\ resets < MaxResets
    /\ resets' = resets + 1
    /\ particle_cloud' = <<>>
    /\ rl_it' = Detached(rl_it)
    /\ cb_k' = n_particles
    /\ cb_pc' = "init_append"
    /\ UNCHANGED <<scan_to_process, last_scan_timestamp, n_particles,
                   current_odom_xy_theta, odom_pose, robot_pose, translation, tf_requested, tf_sent,
                   particle_pub, clock>>
    /\ UNCHANGED <<rl_pc, rl_msg, rl_lookup, rl_k, rl_weight_sum, rl_sample, rl_n0,
                   cb_it, cb_weight_sum>>

\* initialize_particle_cloud, lines 307-313: one iteration of the loop, the
\* noise putting the particle in cell x; 1/self.n_particles raises
\* ZeroDivisionError when the count has decayed to 0 meanwhile
InitialPoseAppend ==
    /\ cb_pc = "init_append"
    /\ cb_k > 0
    /\ IF n_particles = 0
       THEN /\ cb_pc' = "crashed"
            /\ UNCHANGED <<particle_cloud, cb_k>>
       ELSE /\ \E x \in Cells :
                 particle_cloud' =
                     Append(particle_cloud, Particle(x, Sign(1), resets))
            /\ cb_k' = cb_k - 1
            /\ UNCHANGED cb_pc
    /\ UNCHANGED <<scan_to_process, last_scan_timestamp, n_particles,
                   current_odom_xy_theta, odom_pose, robot_pose, translation, tf_requested, tf_sent,
                   particle_pub, clock, resets, cb_it, cb_weight_sum>>
    /\ UNCHANGED rlVars

\* normalize_particles called from initialize_particle_cloud, line 319
InitialPoseSum ==
    /\ cb_pc = "init_append"
    /\ cb_k = 0
    /\ cb_weight_sum' = WeightSum(particle_cloud)
    /\ cb_it' = NewIter
    /\ cb_pc' = "init_norm"
    /\ UNCHANGED nodeVars
    /\ UNCHANGED rlVars
    /\ UNCHANGED <<cb_k, clock, resets>>

\* normalize_particles called from initialize_particle_cloud, lines 320-324: one
\* iteration of the loop, or its end and the callback's return
InitialPoseNormalize ==
    /\ cb_pc = "init_norm"
    /\ LET cloud == IterList(cb_it)
           idx == cb_it.i + 1
       IN  IF idx > Len(cloud)
           THEN /\ cb_pc' = "idle"
                /\ cb_it' = NoIter
                /\ cb_weight_sum' = 0
                /\ UNCHANGED particle_cloud
           ELSE IF cb_weight_sum = 0 /\ n_particles = 0
           THEN /\ cb_pc' = "crashed"
                /\ UNCHANGED <<particle_cloud, cb_it, cb_weight_sum>>
           ELSE LET w == normalize_weight(cloud[idx].w, cb_weight_sum, n_particles)
                IN  /\ IF cb_it.ref = "cur"
                       THEN /\ particle_cloud' = [particle_cloud EXCEPT ![idx].w = w]
                            /\ cb_it' = [cb_it EXCEPT !.i = idx]
                       ELSE /\ cb_it' = [cb_it EXCEPT !.i = idx, !.old[idx].w = w]
                            /\ UNCHANGED particle_cloud
                    /\ UNCHANGED <<cb_pc, cb_weight_sum>>
    /\ UNCHANGED <<scan_to_process, last_scan_timestamp, n_particles,
                   current_odom_xy_theta, odom_pose, robot_pose, translation, tf_requested, tf_sent,
                   particle_pub, clock, resets, cb_k>>
    /\ UNCHANGED rlVars

-----------------------------------------------------------------------------
(* The estimation thread: loop_wrapper calling run_loop for ever.          *)

\* what TFHelper.get_matching_odom_pose can return: (pose, _) or (None, delta_t)
LookupResults ==
    {<<p, <<>> >> : p \in OdomPoses} \cup {<< <<>>, d>> : d \in {<<>>, <<-1>>, <<0>>}}

\* line 163 without the test of the sign: every reported duration drops the scan
too_old_any(delta_t) == delta_t # <<>>

\* line 163 with the comparison reversed
too_old_reversed(delta_t) == delta_t # <<>> /\ delta_t[1] > 0

\* run_loop, line 163: the transform is older than the oldest one kept
too_old(delta_t) == delta_t # <<>> /\ delta_t[1] < 0

\* run_loop, lines 154-155: nothing to process
RunLoopNoScan ==
    /\ rl_pc = "idle"
    /\ scan_to_process = NoScan
    /\ UNCHANGED vars

\* run_loop, lines 156-160: take the pending scan and look its odometry pose up
RunLoopLookup ==
    /\ rl_pc = "idle"
    /\ scan_to_process # NoScan
    /\ rl_msg' = scan_to_process
    /\ \E res \in LookupResults : rl_lookup' = res
    /\ rl_pc' = "lookup"
    /\ UNCHANGED nodeVars
    /\ UNCHANGED <<rl_k, rl_it, rl_weight_sum, rl_sample, rl_n0, clock, resets>>
    /\ UNCHANGED cbVars

\* run_loop, lines 161-166: no pose for the scan's time stamp
RunLoopNoPose ==
    /\ rl_pc = "lookup"
    /\ rl_lookup[1] = <<>>
    /\ scan_to_process' = IF too_old(rl_lookup[2]) THEN NoScan ELSE scan_to_process
    /\ rl_pc' = "idle"
    /\ rl_msg' = NoScan
    /\ rl_lookup' = << <<>>, <<>> >>
    /\ UNCHANGED <<last_scan_timestamp, particle_cloud, n_particles,
                   current_odom_xy_theta, odom_pose, robot_pose, translation, tf_requested, tf_sent,
                   particle_pub, clock, resets>>
    /\ UNCHANGED <<rl_k, rl_it, rl_weight_sum, rl_sample, rl_n0>>
    /\ UNCHANGED cbVars

\* run_loop's branch storing the snapshot on every cycle, the idle ones too
RunLoopBranch_resnapshot ==
    /\ rl_pc = "lookup"
    /\ rl_lookup[1] # <<>>
    /\ scan_to_process' = NoScan
    /\ odom_pose' = rl_lookup[1]
    /\ rl_lookup' = << <<>>, <<>> >>
    /\ IF current_odom_xy_theta = <<>>
       THEN /\ current_odom_xy_theta' = rl_lookup[1]
            /\ rl_pc' = "snapshot"
       ELSE /\ current_odom_xy_theta' =
                   IF particle_cloud # <<>> /\ ~moved_far_enough_to_update(rl_lookup[1])
                   THEN rl_lookup[1] ELSE current_odom_xy_theta
            /\ rl_pc' = IF particle_cloud = <<>> THEN "kidnap"
                        ELSE IF moved_far_enough_to_update(rl_lookup[1]) THEN "motion"
                        ELSE "publish"
    /\ UNCHANGED <<last_scan_timestamp, particle_cloud, n_particles, robot_pose,
                   translation, tf_requested, tf_sent, particle_pub, clock, resets>>
    /\ UNCHANGED <<rl_msg, rl_k, rl_it, rl_weight_sum, rl_sample, rl_n0>>
    /\ UNCHANGED cbVars

\* run_loop, lines 168-183: clear the slot and choose the cycle's branch. The
\* position "snapshot" is line 196 reached from line 178, "publish" is line
\* 196 reached with the gate closed.
RunLoopBranch ==
    /\ rl_pc = "lookup"
    /\ rl_lookup[1] # <<>>
    /\ scan_to_process' = NoScan
    /\ odom_pose' = rl_lookup[1]
    /\ rl_lookup' = << <<>>, <<>> >>
    /\ IF current_odom_xy_theta = <<>>
       THEN /\ current_odom_xy_theta' = rl_lookup[1]
            /\ rl_pc' = "snapshot"
       ELSE /\ UNCHANGED current_odom_xy_theta
            /\ rl_pc' = IF particle_cloud = <<>> THEN "kidnap"
                        ELSE IF moved_far_enough_to_update(rl_lookup[1]) THEN "motion"
                        ELSE "publish"
    /\ UNCHANGED <<last_scan_timestamp, particle_cloud, n_particles, robot_pose,
                   translation, tf_requested, tf_sent, particle_pub, clock, resets>>
    /\ UNCHANGED <<rl_msg, rl_k, rl_it, rl_weight_sum, rl_sample, rl_n0>>
    /\ UNCHANGED cbVars

\* initialize_particle_cloud_kidnap, lines 288-290: a new list, and
\* n_random_free_point(self.n_particles) free points
KidnapBegin ==
    /\ rl_pc = "kidnap"
    /\ particle_cloud' = <<>>
    /\ cb_it' = Detached(cb_it)
    /\ rl_k' = n_particles
    /\ rl_pc' = "kidnap_append"
    /\ UNCHANGED <<scan_to_process, last_scan_timestamp, n_particles,
                   current_odom_xy_theta, odom_pose, robot_pose, translation, tf_requested, tf_sent,
                   particle_pub, clock, resets>>
    /\ UNCHANGED <<rl_msg, rl_lookup, rl_it, rl_weight_sum, rl_sample, rl_n0>>
    /\ UNCHANGED <<cb_pc, cb_k, cb_weight_sum>>

\* the particle initialize_particle_cloud_kidnap makes of a free point
\* (lines 293-296): the point plus the placement noise, weight 1.0
kidnap_particle(point, x_noise) == Particle(CellOf(point + x_noise), Sign(1), 0)

\* initialize_particle_cloud_kidnap, lines 291-296: one iteration of the loop
KidnapAppend ==
    /\ rl_pc = "kidnap_append"
    /\ rl_k > 0
    /\ \E point \in FreeCells, x_noise \in {-1, 0, 1} :
           particle_cloud' = Append(particle_cloud, kidnap_particle(point, x_noise))
    /\ rl_k' = rl_k - 1
    /\ UNCHANGED <<scan_to_process, last_scan_timestamp, n_particles,
                   current_odom_xy_theta, odom_pose, robot_pose, translation, tf_requested, tf_sent,
                   particle_pub, clock, resets>>
    /\ UNCHANGED <<rl_pc, rl_msg, rl_lookup, rl_it, rl_weight_sum, rl_sample, rl_n0>>
    /\ UNCHANGED cbVars

\* publish_particles(msg.header.stamp) and run_loop's return
publish_particles ==
    /\ particle_pub' = rl_msg.stamp
    /\ rl_pc' = "idle"
    /\ rl_msg' = NoScan
    /\ rl_n0' = -1
    /\ rl_it' = NoIter
    /\ rl_weight_sum' = 0
    /\ rl_sample' = <<>>
    /\ UNCHANGED <<scan_to_process, last_scan_timestamp, particle_cloud, n_particles,
                   current_odom_xy_theta, odom_pose, robot_pose, translation, tf_requested, tf_sent,
                   clock, resets>>
    /\ UNCHANGED <<rl_lookup, rl_k>>
    /\ UNCHANGED cbVars

\* run_loop, line 196, after the first snapshot or an idle cycle
RunLoopPublish ==
    /\ rl_pc \in {"snapshot", "publish"}
    /\ publish_particles

\* run_loop, line 196, after initialize_particle_cloud_kidnap has returned
KidnapPublish ==
    /\ rl_pc = "kidnap_append"
    /\ rl_k = 0
    /\ publish_particles

\* ParticleFilter.__init__. The particle count starts at any value up to
\* MaxParticles: from 300 the decay passes through every count from 50 down.
Init ==
    /\ scan_to_process = NoScan
    /\ last_scan_timestamp = 0
    /\ particle_cloud = <<>>
    /\ n_particles \in 1..MaxParticles
    /\ current_odom_xy_theta = <<>>
    /\ odom_pose = <<>>
    /\ robot_pose = -1
    /\ translation = FALSE
    /\ tf_requested = FALSE
    /\ tf_sent = FALSE
    /\ particle_pub = 0
    /\ rl_pc = "idle"
    /\ rl_msg = NoScan
    /\ rl_lookup = << <<>>, <<>> >>
    /\ rl_k = 0
    /\ rl_it = NoIter
    /\ rl_weight_sum = 0
    /\ rl_sample = <<>>
    /\ rl_n0 = -1
    /\ cb_pc = "idle"
    /\ cb_k = 0
    /\ cb_it = NoIter
    /\ cb_weight_sum = 0
    /\ clock = 0
    /\ resets = 0

\* the estimation thread stores particle p at position idx of the list it iterates
RlStore(idx, p) ==
    IF rl_it.ref = "cur"
    THEN /\ particle_cloud' = [particle_cloud EXCEPT ![idx] = p]
         /\ rl_it' = [rl_it EXCEPT !.i = idx]
    ELSE /\ rl_it' = [rl_it EXCEPT !.i = idx, !.old[idx] = p]
         /\ UNCHANGED particle_cloud

\* update_particles_with_odom, lines 224-238: store the new snapshot and start
\* the loop over self.particle_cloud
MotionBegin ==
    /\ rl_pc = "motion"
    /\ current_odom_xy_theta' = odom_pose
    /\ rl_n0' = n_particles
    /\ rl_it' = NewIter
    /\ rl_pc' = "motion_loop"
    /\ UNCHANGED <<scan_to_process, last_scan_timestamp, particle_cloud, n_particles,
                   odom_pose, robot_pose, translation, tf_requested, tf_sent, particle_pub, clock,
                   resets>>
    /\ UNCHANGED <<rl_msg, rl_lookup, rl_k, rl_weight_sum, rl_sample>>
    /\ UNCHANGED cbVars

\* update_particles_with_odom, lines 238-244: one iteration, the displacement
\* and its noise putting the particle in cell x. list.remove(p) raises
\* ValueError when self.particle_cloud is no longer the list being iterated.
MotionStep ==
    /\ rl_pc = "motion_loop"
    /\ rl_it.i + 1 <= Len(IterList(rl_it))
    /\ LET cloud == IterList(rl_it)
           idx == rl_it.i + 1
       IN  \E x \in Cells :
             IF is_free_position(x)
             THEN /\ RlStore(idx, [cloud[idx] EXCEPT !.x = x])
                  /\ UNCHANGED rl_pc
             ELSE IF rl_it.ref = "cur"
             THEN /\ particle_cloud' = RemoveAt(particle_cloud, idx)
                  /\ rl_it' = [rl_it EXCEPT !.i = idx]
                  /\ UNCHANGED rl_pc
             ELSE /\ rl_it' = [rl_it EXCEPT !.i = idx, !.old[idx].x = x]
                  /\ rl_pc' = "crashed"
                  /\ UNCHANGED particle_cloud
    /\ UNCHANGED <<scan_to_process, last_scan_timestamp, n_particles,
                   current_odom_xy_theta, odom_pose, robot_pose, translation, tf_requested, tf_sent,
                   particle_pub, clock, resets>>
    /\ UNCHANGED <<rl_msg, rl_lookup, rl_k, rl_weight_sum, rl_sample, rl_n0>>
    /\ UNCHANGED cbVars

\* the end of update_particles_with_odom's loop, and update_particles_with_laser,
\* lines 271-272: start the loop over self.particle_cloud
MotionEnd ==
    /\ rl_pc = "motion_loop"
    /\ rl_it.i + 1 > Len(IterList(rl_it))
    /\ rl_it' = NewIter
    /\ rl_pc' = "laser"
    /\ UNCHANGED nodeVars
    /\ UNCHANGED <<rl_msg, rl_lookup, rl_k, rl_weight_sum, rl_sample, rl_n0, clock, resets>>
    /\ UNCHANGED cbVars

\* update_particles_with_laser, lines 272-276: one iteration; the weight is the
\* number of the scan's points that lie close to an obstacle
LaserStep ==
    /\ rl_pc = "laser"
    /\ rl_it.i + 1 <= Len(IterList(rl_it))
    /\ LET cloud == IterList(rl_it)
           idx == rl_it.i + 1
       IN  \E hits \in 0..rl_msg.beams :
             RlStore(idx, [cloud[idx] EXCEPT !.w = Sign(hits)])
    /\ UNCHANGED <<scan_to_process, last_scan_timestamp, n_particles,
                   current_odom_xy_theta, odom_pose, robot_pose, translation, tf_requested, tf_sent,
                   particle_pub, clock, resets>>
    /\ UNCHANGED <<rl_pc, rl_msg, rl_lookup, rl_k, rl_weight_sum, rl_sample, rl_n0>>
    /\ UNCHANGED cbVars

\* normalize_particles, lines 319-320: sum the weights and start the loop
normalize_begin(next_pc) ==
    /\ rl_weight_sum' = WeightSum(particle_cloud)
    /\ rl_it' = NewIter
    /\ rl_pc' = next_pc
    /\ UNCHANGED nodeVars
    /\ UNCHANGED <<rl_msg, rl_lookup, rl_k, rl_sample, rl_n0, clock, resets>>
    /\ UNCHANGED cbVars

\* the end of update_particles_with_laser's loop, and update_robot_pose, line 212
LaserEnd ==
    /\ rl_pc = "laser"
    /\ rl_it.i + 1 > Len(IterList(rl_it))
    /\ normalize_begin("pose_norm")

\* normalize_particles, lines 320-324: one iteration, in update_robot_pose or
\* in resample_particles; 1/self.n_particles raises ZeroDivisionError
NormalizeStep ==
    /\ rl_pc \in {"pose_norm", "rs_norm"}
    /\ rl_it.i + 1 <= Len(IterList(rl_it))
    /\ LET cloud == IterList(rl_it)
           idx == rl_it.i + 1
       IN  IF rl_weight_sum = 0 /\ n_particles = 0
           THEN /\ rl_pc' = "crashed"
                /\ UNCHANGED <<particle_cloud, rl_it>>
           ELSE /\ RlStore(idx, [cloud[idx] EXCEPT
                                   !.w = normalize_weight(@, rl_weight_sum, n_particles)])
                /\ UNCHANGED rl_pc
    /\ UNCHANGED <<scan_to_process, last_scan_timestamp, n_particles,
                   current_odom_xy_theta, odom_pose, robot_pose, translation, tf_requested, tf_sent,
                   particle_pub, clock, resets>>
    /\ UNCHANGED <<rl_msg, rl_lookup, rl_k, rl_weight_sum, rl_sample, rl_n0>>
    /\ UNCHANGED cbVars

\* update_robot_pose storing a correction before it looks for the best particle
update_robot_pose_fix_first ==
    /\ rl_pc = "pose_norm"
    /\ rl_it.i + 1 > Len(IterList(rl_it))
    /\ IF particle_cloud = <<>>
       THEN /\ rl_pc' = "crashed"
            /\ translation' = TRUE
            /\ UNCHANGED robot_pose
       ELSE /\ \E best \in ArgMax(particle_cloud) :
                 robot_pose' = particle_cloud[best].x
            /\ translation' = TRUE
            /\ rl_pc' = "decay"
    /\ rl_it' = NoIter
    /\ UNCHANGED <<scan_to_process, last_scan_timestamp, particle_cloud, n_particles,
                   current_odom_xy_theta, odom_pose, tf_requested, tf_sent, particle_pub,
                   clock, resets>>
    /\ UNCHANGED <<rl_msg, rl_lookup, rl_k, rl_weight_sum, rl_sample, rl_n0>>
    /\ UNCHANGED cbVars

\* update_robot_pose, lines 213-216: np.argmax raises ValueError on an empty
\* list; otherwise the best particle becomes the pose estimate and
\* fix_map_to_odom_transform stores the correction
update_robot_pose ==
    /\ rl_pc = "pose_norm"
    /\ rl_it.i + 1 > Len(IterList(rl_it))
    /\ IF particle_cloud = <<>>
       THEN /\ rl_pc' = "crashed"
            /\ UNCHANGED <<robot_pose, translation>>
       ELSE /\ \E best \in ArgMax(particle_cloud) :
                 robot_pose' = particle_cloud[best].x
            /\ translation' = TRUE
            /\ rl_pc' = "decay"
    /\ rl_it' = NoIter
    /\ UNCHANGED <<scan_to_process, last_scan_timestamp, particle_cloud, n_particles,
                   current_odom_xy_theta, odom_pose, tf_requested, tf_sent, particle_pub,
                   clock, resets>>
    /\ UNCHANGED <<rl_msg, rl_lookup, rl_k, rl_weight_sum, rl_sample, rl_n0>>
    /\ UNCHANGED cbVars

\* run_loop, line 192
Decay ==
    /\ rl_pc = "decay"
    /\ n_particles' = DecayedCount(n_particles)
    /\ rl_pc' = "resample"
    /\ UNCHANGED <<scan_to_process, last_scan_timestamp, particle_cloud,
                   current_odom_xy_theta, odom_pose, robot_pose, translation, tf_requested, tf_sent,
                   particle_pub, clock, resets>>
    /\ UNCHANGED <<rl_msg, rl_lookup, rl_k, rl_it, rl_weight_sum, rl_sample, rl_n0>>
    /\ UNCHANGED cbVars

\* resample_particles, line 253
ResampleBegin ==
    /\ rl_pc = "resample"
    /\ normalize_begin("rs_norm")

\* resample_particles, lines 254-256: draw_random_sample copies n_particles
\* particles of the population; it cannot draw from an empty one
ResampleDraw ==
    /\ rl_pc = "rs_norm"
    /\ rl_it.i + 1 > Len(IterList(rl_it))
    /\ IF particle_cloud = <<>> /\ n_particles > 0
       THEN /\ rl_pc' = "crashed"
            /\ UNCHANGED <<rl_sample, rl_k>>
       ELSE /\ rl_sample' = particle_cloud
            /\ rl_k' = n_particles
            /\ rl_pc' = "rs_clear"
    /\ rl_it' = NoIter
    /\ UNCHANGED nodeVars
    /\ UNCHANGED <<rl_msg, rl_lookup, rl_weight_sum, rl_n0, clock, resets>>
    /\ UNCHANGED cbVars

\* resample_particles, line 257
ResampleClear ==
    /\ rl_pc = "rs_clear"
    /\ particle_cloud' = <<>>
    /\ cb_it' = Detached(cb_it)
    /\ rl_pc' = "rs_append"
    /\ UNCHANGED <<scan_to_process, last_scan_timestamp, n_particles,
                   current_odom_xy_theta, odom_pose, robot_pose, translation, tf_requested, tf_sent,
                   particle_pub, clock, resets>>
    /\ UNCHANGED <<rl_msg, rl_lookup, rl_k, rl_it, rl_weight_sum, rl_sample, rl_n0>>
    /\ UNCHANGED <<cb_pc, cb_k, cb_weight_sum>>

\* the particles draw_random_sample can pick: those of positive weight, or
\* all of them when every weight is 0
Drawable(cloud) ==
    LET pos == {j \in 1..Len(cloud) : cloud[j].w > 0}
    IN  IF pos = {} THEN 1..Len(cloud) ELSE pos

\* resample_particles, lines 258-263: one iteration; the copy drawn is
\* jittered into cell x and appended to self.particle_cloud
ResampleAppend ==
    /\ rl_pc = "rs_append"
    /\ rl_k > 0
    /\ \E j \in Drawable(rl_sample), x \in Cells :
           particle_cloud' = Append(particle_cloud, [rl_sample[j] EXCEPT !.x = x])
    /\ rl_k' = rl_k - 1
    /\ UNCHANGED <<scan_to_process, last_scan_timestamp, n_particles,
                   current_odom_xy_theta, odom_pose, robot_pose, translation, tf_requested, tf_sent,
                   particle_pub, clock, resets>>
    /\ UNCHANGED <<rl_pc, rl_msg, rl_lookup, rl_it, rl_weight_sum, rl_sample, rl_n0>>
    /\ UNCHANGED cbVars

\* run_loop, line 196, after resample_particles has returned
ResamplePublish ==
    /\ rl_pc = "rs_append"
    /\ rl_k = 0
    /\ publish_particles

-----------------------------------------------------------------------------
Next ==
    \/ ScanReceived
    \/ pub_latest_transform
    \/ InitialPoseBegin
    \/ InitialPoseAppend
    \/ InitialPoseSum
    \/ InitialPoseNormalize
    \/ RunLoopNoScan
    \/ RunLoopLookup
    \/ RunLoopNoPose
    \/ RunLoopBranch
    \/ KidnapBegin
    \/ KidnapAppend
    \/ KidnapPublish
    \/ RunLoopPublish
    \/ MotionBegin
    \/ MotionStep
    \/ MotionEnd
    \/ LaserStep
    \/ LaserEnd
    \/ NormalizeStep
    \/ update_robot_pose
    \/ Decay
    \/ ResampleBegin
    \/ ResampleDraw
    \/ ResampleClear
    \/ ResampleAppend
    \/ ResamplePublish

Spec == Init /\ [][Next]_vars

\* the steps of the estimation thread: loop_wrapper calls run_loop again and
\* again, and the interpreter keeps scheduling the thread
EstimationNext ==
    \/ RunLoopLookup
    \/ RunLoopNoPose
    \/ RunLoopBranch
    \/ KidnapBegin
    \/ KidnapAppend
    \/ KidnapPublish
    \/ RunLoopPublish
    \/ MotionBegin
    \/ MotionStep
    \/ MotionEnd
    \/ LaserStep
    \/ LaserEnd
    \/ NormalizeStep
    \/ update_robot_pose
    \/ Decay
    \/ ResampleBegin
    \/ ResampleDraw
    \/ ResampleClear
    \/ ResampleAppend
    \/ ResamplePublish

\* get_matching_odom_pose returning a pose or a negative duration
LookupResolves ==
    /\ RunLoopLookup
    /\ (rl_lookup'[1] # <<>> \/ (rl_lookup'[2] # <<>> /\ rl_lookup'[2][1] < 0))

\* the node with its estimation thread scheduled fairly
FairSpec == Spec /\ WF_vars(EstimationNext)

-----------------------------------------------------------------------------
(* The gate of run_loop on all three axes: the branch of line 183 taken from *)
(* every pair of a stored snapshot and a new odometry pose, with a           *)
(* population in place.                                                      *)

\* (x, y, theta) in units of (2 cm, 2 cm, pi/6)
GatePoses == {<<x, y, t>> : x \in 0..MaxStep, y \in 0..MaxStep, t \in 0..MaxStep}

\* run_loop at line 161 in the cycle after the free-space initialization: scan 3
\* pending, its odometry pose looked up, one particle in the population
GateInit ==
    /\ scan_to_process = [stamp |-> 3, beams |-> 1]
    /\ last_scan_timestamp = 3
    /\ particle_cloud = <<Particle(1, Sign(1), 0)>>
    /\ n_particles = 1
    /\ current_odom_xy_theta \in GatePoses
    /\ odom_pose = current_odom_xy_theta
    /\ robot_pose = -1
    /\ translation = FALSE
    /\ tf_requested = FALSE
    /\ tf_sent = FALSE
    /\ particle_pub = 2
    /\ rl_pc = "lookup"
    /\ rl_msg = scan_to_process
    /\ \E new_pose \in GatePoses : rl_lookup = <<new_pose, <<>> >>
    /\ rl_k = 0
    /\ rl_it = NoIter
    /\ rl_weight_sum = 0
    /\ rl_sample = <<>>
    /\ rl_n0 = -1
    /\ cb_pc = "idle"
    /\ cb_k = 0
    /\ cb_it = NoIter
    /\ cb_weight_sum = 0
    /\ clock = 3
    /\ resets = 0

GateNext == RunLoopBranch

GateSpec == GateInit /\ [][GateNext]_vars

-----------------------------------------------------------------------------
(* One full cycle of the estimation thread run alone, with exact poses and   *)
(* weights. Here a particle is [id, x, y, theta, w, moved]: x and y in units *)
(* of 2 cm, theta in units of pi/6, w the fraction <<numerator,              *)
(* denominator>>; id stands for the identity of the Python object and moved  *)
(* counts the displacements applied to it (neither is a field of the         *)
(* program). The x, y noise of the motion update is drawn as 0 and the       *)
(* headings that enter a rotation are quarter turns, so that cos and sin are *)
(* exact.                                                                    *)

\* np.cos and np.sin at a multiple of a quarter turn
cos(t) == CASE t % (2 * HalfTurn) = 0 -> 1
            [] t % (2 * HalfTurn) = HalfTurn -> -1
            [] OTHER -> 0
sin(t) == CASE 2 * (t % (2 * HalfTurn)) = HalfTurn -> 1
            [] 2 * (t % (2 * HalfTurn)) = 3 * HalfTurn -> -1
            [] OTHER -> 0

\* TFHelper.angle_normalize: the equivalent angle in (-pi, pi]
angle_normalize(z) ==
    LET m == z % (2 * HalfTurn)
    IN  IF m > HalfTurn THEN m - 2 * HalfTurn ELSE m

\* OccupancyField.is_free_position on the exact map: a free square
FreePoints == (0..2) \X (0..2)
is_free_xy(x, y) == <<x, y>> \in FreePoints

ExactParticle(id, x, y, theta) ==
    [id |-> id, x |-> x, y |-> y, theta |-> theta, w |-> <<1, 1>>, moved |-> 0]

\* fractions
RatAdd(a, b) == <<a[1] * b[2] + b[1] * a[2], a[2] * b[2]>>
RatDiv(a, b) == <<a[1] * b[2], a[2] * b[1]>>
RatEq(a, b) == a[1] * b[2] = b[1] * a[2]

\* sum([p.w for p in self.particle_cloud]), exactly
RECURSIVE ExactSum(_)
ExactSum(cloud) ==
    IF cloud = <<>> THEN <<0, 1>> ELSE RatAdd(Head(cloud).w, ExactSum(Tail(cloud)))

\* update_particles_with_odom, lines 227-229
odom_delta(old_odom_xy_theta, new_odom_xy_theta) ==
    <<new_odom_xy_theta[1] - old_odom_xy_theta[1],
      new_odom_xy_theta[2] - old_odom_xy_theta[2],
      new_odom_xy_theta[3] - old_odom_xy_theta[3]>>

\* the rotation of lines 236-237 by heading: (delta_x_n, delta_y_n)
delta_n(heading, delta) ==
    <<cos(heading) * delta[1] + sin(heading) * delta[2],
      (0 - sin(heading)) * delta[1] + cos(heading) * delta[2]>>

\* update_particles_with_odom, lines 240-242, for particle p
displaced(p, dn, dtheta, theta_noise) ==
    [p EXCEPT !.x = @ + cos(p.theta) * dn[1] - sin(p.theta) * dn[2],
              !.y = @ + sin(p.theta) * dn[1] + cos(p.theta) * dn[2],
              !.theta = angle_normalize(p.theta + dtheta) + theta_noise,
              !.moved = @ + 1]

\* update_particles_with_odom, lines 238-244: the loop from position i of the
\* list on. The list iterator goes on to position i + 1 whether or not remove
\* has shifted the rest of the list down.
RECURSIVE odom_loop(_, _, _, _, _)
odom_loop(cloud, i, dn, dtheta, noise) ==
    IF i > Len(cloud) THEN cloud
    ELSE LET q == displaced(cloud[i], dn, dtheta, noise[cloud[i].id])
         IN  IF is_free_xy(q.x, q.y)
             THEN odom_loop([cloud EXCEPT ![i] = q], i + 1, dn, dtheta, noise)
             ELSE odom_loop(RemoveAt(cloud, i), i + 1, dn, dtheta, noise)

\* what the exact cycle leaves alone
exactFrame ==
    UNCHANGED <<scan_to_process, last_scan_timestamp, n_particles, odom_pose, robot_pose,
                translation, tf_requested, tf_sent, particle_pub, rl_msg, rl_lookup, rl_k,
                rl_it, rl_weight_sum, rl_sample, rl_n0, cb_pc, cb_k, cb_it, cb_weight_sum,
                clock, resets>>

\* ParticleFilter.update_particles_with_odom, run without interruption. Line 231
\* stores the new snapshot before lines 236-237 read its heading.
update_particles_with_odom ==
    /\ rl_pc = "motion"
    /\ current_odom_xy_theta' = odom_pose
    /\ \E noise \in [1..MaxExact -> {-1, 0, 1}] :
         particle_cloud' =
             odom_loop(particle_cloud, 1,
                       delta_n(current_odom_xy_theta'[3],
                               odom_delta(current_odom_xy_theta, odom_pose)),
                       odom_delta(current_odom_xy_theta, odom_pose)[3], noise)
    /\ rl_pc' = "laser"
    /\ exactFrame

\* ParticleFilter.update_particles_with_laser: each weight becomes the number
\* of the scan's points close to an obstacle
update_particles_with_laser ==
    /\ rl_pc = "laser"
    /\ \E hits \in [1..MaxExact -> 0..rl_msg.beams] :
         particle_cloud' = [i \in 1..Len(particle_cloud) |->
                               [particle_cloud[i] EXCEPT !.w = <<hits[particle_cloud[i].id], 1>>]]
    /\ rl_pc' = "pose_norm"
    /\ UNCHANGED current_odom_xy_theta
    /\ exactFrame

\* ParticleFilter.normalize_particles (called by update_robot_pose, line 212)
normalize_particles ==
    /\ rl_pc = "pose_norm"
    /\ LET weight_sum == ExactSum(particle_cloud)
       IN  particle_cloud' = [i \in 1..Len(particle_cloud) |->
               [particle_cloud[i] EXCEPT
                   !.w = IF weight_sum[1] = 0 THEN <<1, n_particles>>
                         ELSE RatDiv(@, weight_sum)]]
    /\ rl_pc' = "normalized"
    /\ UNCHANGED current_odom_xy_theta
    /\ exactFrame

\* odometry poses whose headings are quarter turns
ExactPoses == {<<x, y, t>> : x \in {0, 2}, y \in {0, 2}, t \in {0, HalfTurn \div 2}}

\* where a particle can be when the cycle starts: a free point and a heading
\* in (-pi, pi]
ExactStarts == {<<0, 0>>, <<2, 0>>} \X {0, HalfTurn \div 2, HalfTurn}

\* run_loop at line 161 with a population in place, a snapshot stored and the
\* pose of the pending scan looked up
CycleInit ==
    /\ \E beams \in ScanSizes : scan_to_process = [stamp |-> 3, beams |-> beams]
    /\ last_scan_timestamp = 3
    /\ n_particles \in 1..MaxExact
    /\ \E start \in [1..n_particles -> ExactStarts] :
         particle_cloud = [i \in 1..n_particles |->
                              ExactParticle(i, start[i][1][1], start[i][1][2], start[i][2])]
    /\ current_odom_xy_theta \in ExactPoses
    /\ odom_pose = current_odom_xy_theta
    /\ robot_pose = -1
    /\ translation = FALSE
    /\ tf_requested = FALSE
    /\ tf_sent = FALSE
    /\ particle_pub = 2
    /\ rl_pc = "lookup"
    /\ rl_msg = scan_to_process
    /\ \E new_pose \in ExactPoses : rl_lookup = <<new_pose, <<>> >>
    /\ rl_k = 0
    /\ rl_it = NoIter
    /\ rl_weight_sum = 0
    /\ rl_sample = <<>>
    /\ rl_n0 = -1
    /\ cb_pc = "idle"
    /\ cb_k = 0
    /\ cb_it = NoIter
    /\ cb_weight_sum = 0
    /\ clock = 3
    /\ resets = 0

CycleNext ==
    \/ RunLoopBranch
    \/ RunLoopPublish
    \/ update_particles_with_odom
    \/ update_particles_with_laser
    \/ normalize_particles

CycleSpec == CycleInit /\ [][CycleNext]_vars

-----------------------------------------------------------------------------
(* Properties.                                                             *)

\* a step of the estimation thread that leaves the lookup of run_loop
LeavesLookup == rl_pc = "lookup" /\ rl_pc' # "lookup"

\* a step of the estimation thread: it moves in run_loop, or advances one of
\* its loops
EstimationStep == rl_pc' # rl_pc \/ rl_k' # rl_k \/ rl_it'.i # rl_it.i

\* what a deferred or dropped scan must leave alone
CycleFrame == UNCHANGED <<particle_cloud, n_particles, current_odom_xy_theta, particle_pub>>

\* C1: the scan hand-off has depth 1. A scan that arrives while one is pending
\* is dropped and the pending one stays; the slot is filled only when it is
\* empty, with the scan that arrives; only run_loop empties it.
C1_ScanHandOffDepthOne ==
    [][ /\ (clock' # clock /\ scan_to_process # NoScan
               => scan_to_process' = scan_to_process)
        /\ (scan_to_process = NoScan /\ scan_to_process' # NoScan
               => clock' = clock + 1 /\ scan_to_process'.stamp = clock')
        /\ (scan_to_process # NoScan /\ scan_to_process' # scan_to_process
               => scan_to_process' = NoScan /\ LeavesLookup /\ clock' = clock)
      ]_vars

\* C1 witness: a scan is pending and a later scan has been received and dropped
C1_Witness ==
    /\ scan_to_process # NoScan
    /\ last_scan_timestamp > scan_to_process.stamp

\* C2: population collapse is never fatal. A full cycle whose motion update has
\* discarded every particle (no pose reset being involved) does not fail: the
\* estimation thread is never dead with the population emptied mid-cycle.
C2_CollapseNotFatal ==
    ~(rl_pc = "crashed" /\ rl_n0 # -1 /\ particle_cloud = <<>> /\ resets = 0)

\* C3: only the estimation thread mutates the population. No step of the
\* executor thread (scan callback, pose-reset callback, transform timer)
\* changes particle_cloud.
C3_OnlyLoopMutatesPopulation ==
    [][particle_cloud' # particle_cloud
         => UNCHANGED <<cb_pc, cb_k, cb_weight_sum, clock, resets, tf_requested, tf_sent>>
      ]_vars

\* C4: the target particle count is at least 1 in every reachable state.
C4_CountAtLeastOne == n_particles >= 1

\* C5: N never grows and changes only at the decay of a full cycle, where it
\* becomes floor(N * 0.98); a completed full cycle has decayed it exactly once.
C5_DecayOncePerFullCycle ==
    [][ /\ n_particles' <= n_particles
        /\ (n_particles' # n_particles
               => /\ rl_pc = "decay" /\ rl_pc' = "resample"
                  /\ n_particles' * DecayDen <= n_particles * DecayNum
                  /\ n_particles * DecayNum < (n_particles' + 1) * DecayDen)
        /\ (rl_pc = "rs_append" /\ rl_pc' = "idle"
               => /\ n_particles' * DecayDen <= rl_n0 * DecayNum
                  /\ rl_n0 * DecayNum < (n_particles' + 1) * DecayDen)
      ]_vars

\* C5 witness: a full cycle has completed, having decayed N from 2 to 1 and
\* resampled one particle
C5_Witness ==
    /\ rl_pc = "idle"
    /\ robot_pose # -1
    /\ n_particles = 1
    /\ Len(particle_cloud) = 1

\* C6: the population size tracks N. Whenever both threads are at rest and the
\* population has been initialized, it holds exactly n_particles particles.
C6_SizeTracksCount ==
    (rl_pc = "idle" /\ cb_pc = "idle" /\ particle_cloud # <<>>)
        => Len(particle_cloud) = n_particles

\* C7: kidnap recovery. When initialize_particle_cloud_kidnap has finished, the
\* population has exactly n_particles particles, all of them in free space.
C7_KidnapInFreeSpace ==
    (rl_pc = "kidnap_append" /\ rl_k = 0)
        => /\ Len(particle_cloud) = n_particles
           /\ \A i \in 1..Len(particle_cloud) : is_free_position(particle_cloud[i].x)

\* C8: transient odometry unavailability defers atomically. When the lookup
\* returned no pose and did not report too-old, run_loop returns leaving the
\* pending scan, the population, N and the odometry snapshot unchanged and
\* publishing nothing.
C8_DeferIsAtomic ==
    [][ (/\ LeavesLookup
         /\ rl_lookup[1] = <<>>
         /\ (rl_lookup[2] = <<>> \/ rl_lookup[2][1] >= 0))
            => /\ scan_to_process' = scan_to_process
               /\ scan_to_process' = rl_msg
               /\ rl_pc' = "idle"
               /\ CycleFrame
      ]_vars

\* C8 witness: with a population in place, the lookup for the pending scan has
\* returned no pose and a duration that is not negative
C8_Witness ==
    /\ rl_pc = "lookup"
    /\ rl_lookup = << <<>>, <<0>> >>
    /\ particle_cloud # <<>>

\* C9: permanent odometry unavailability drops the scan. When the lookup
\* returned no pose and a negative duration, run_loop clears the slot and
\* leaves the population, N and the odometry snapshot unchanged; a scan that
\* enters the slot later carries a later time stamp.
C9_TooOldDropsScan ==
    [][ /\ (/\ LeavesLookup
            /\ rl_lookup[1] = <<>>
            /\ rl_lookup[2] # <<>>
            /\ rl_lookup[2][1] < 0)
               => /\ scan_to_process' = NoScan
                  /\ rl_pc' = "idle"
                  /\ CycleFrame
        /\ (scan_to_process' # NoScan /\ scan_to_process' # scan_to_process
               => scan_to_process'.stamp > last_scan_timestamp)
      ]_vars

\* C9 witness: the first scan has left the slot and nothing was published for
\* it: it was dropped
C9_Witness ==
    /\ clock >= 1
    /\ scan_to_process = NoScan
    /\ rl_pc = "idle"
    /\ particle_pub = 0

C11_GateIsStrict ==
    [][ (/\ LeavesLookup
         /\ rl_lookup[1] # <<>>
         /\ current_odom_xy_theta # <<>>
         /\ particle_cloud # <<>>)
            => LET dx == Abs(rl_lookup[1][1] - current_odom_xy_theta[1])
                   dy == Abs(rl_lookup[1][2] - current_odom_xy_theta[2])
                   dt == Abs(rl_lookup[1][3] - current_odom_xy_theta[3])
               IN  /\ rl_pc' \in {"motion", "publish"}
                   /\ rl_pc' = "motion" <=> (dx > d_thresh \/ dy > d_thresh \/ dt > a_thresh)
                   /\ (dx <= d_thresh /\ dy <= d_thresh /\ dt <= a_thresh
                          /\ (dx = d_thresh \/ dy = d_thresh \/ dt = a_thresh))
                         => rl_pc' = "publish"
      ]_vars

\* C11 witness: the gate has refused a pose that is exactly a_thresh away in
\* heading and exactly d_thresh away in y
C11_Witness ==
    /\ rl_pc = "publish"
    /\ Abs(odom_pose[3] - current_odom_xy_theta[3]) = a_thresh
    /\ Abs(odom_pose[2] - current_odom_xy_theta[2]) = d_thresh
    /\ odom_pose[1] = current_odom_xy_theta[1]

\* C12: a pose reset discards the entire population. Once the reset and any
\* cycle it overlapped have finished, every particle of the population was
\* created by that reset (or is a copy of one that was).
C12_ResetDiscardsPopulation ==
    (rl_pc = "idle" /\ cb_pc = "idle" /\ resets >= 1)
        => \A i \in 1..Len(particle_cloud) : particle_cloud[i].src = resets

\* C13: an empty scan is rejected. While run_loop processes a scan with no
\* measurements, past the gate (the movement thresholds being exceeded), none of
\* its steps changes the population or the pose estimate.
C13_EmptyScanRejected ==
    [][ (/\ EstimationStep
         /\ rl_msg # NoScan
         /\ rl_msg.beams = 0
         /\ rl_pc \notin {"lookup", "kidnap", "kidnap_append"})
            => UNCHANGED <<particle_cloud, robot_pose>>
      ]_vars

\* C14: the postcondition of normalize_particles. If some weight was positive
\* the weights afterwards sum to 1; if the population was not empty and every
\* weight was 0, every weight afterwards is 1 / (the number of particles in the
\* population), also when the motion update has left fewer than n_particles.
C14_NormalizePostcondition ==
    [][ (rl_pc = "pose_norm" /\ rl_pc' = "normalized")
            => /\ (\E i \in 1..Len(particle_cloud) : particle_cloud[i].w[1] > 0)
                      => RatEq(ExactSum(particle_cloud'), <<1, 1>>)
               /\ (\A i \in 1..Len(particle_cloud) : particle_cloud[i].w[1] = 0)
                      => \A i \in 1..Len(particle_cloud') :
                             RatEq(particle_cloud'[i].w, <<1, Len(particle_cloud')>>)
      ]_vars

\* C17: the motion update treats every particle. When update_particles_with_odom
\* has returned, every particle of the population has been displaced exactly
\* once and is at a free position.
C17_MotionTreatsEveryParticle ==
    rl_pc = "laser"
        => \A i \in 1..Len(particle_cloud) :
               /\ particle_cloud[i].moved = 1
               /\ is_free_xy(particle_cloud[i].x, particle_cloud[i].y)

\* C18: when update_particles_with_odom has returned, the heading of every
\* particle of the population lies in (-pi, pi].
C18_HeadingInRange ==
    rl_pc = "laser"
        => \A i \in 1..Len(particle_cloud) :
               /\ 0 - HalfTurn < particle_cloud[i].theta
               /\ particle_cloud[i].theta <= HalfTurn

\* C19: the motion update rotates the odometry displacement by the heading of
\* the previous snapshot. With zero x, y noise, every particle the update has
\* displaced has moved by the displacement computed from the previous
\* snapshot's heading, rotated into the particle's own heading.
C19_RotatesByPreviousHeading ==
    [][ (rl_pc = "motion" /\ rl_pc' = "laser")
            => LET ref == delta_n(current_odom_xy_theta[3],
                                  odom_delta(current_odom_xy_theta, odom_pose))
               IN  \A i \in 1..Len(particle_cloud), j \in 1..Len(particle_cloud') :
                     LET p == particle_cloud[i]
                         q == particle_cloud'[j]
                     IN  (q.id = p.id /\ q.moved = p.moved + 1)
                            => /\ q.x - p.x = cos(p.theta) * ref[1] - sin(p.theta) * ref[2]
                               /\ q.y - p.y = sin(p.theta) * ref[1] + cos(p.theta) * ref[2]
      ]_vars

\* C15: the first odometry snapshot. The cycle that finds no snapshot stored
\* records the new pose as the snapshot and does nothing else: it starts no
\* initialization and no filter step, leaves the population and N unchanged,
\* and publishes nothing new.
C15_FirstSnapshotOnly ==
    [][ /\ (LeavesLookup /\ rl_lookup[1] # <<>> /\ current_odom_xy_theta = <<>>)
            => /\ current_odom_xy_theta' = rl_lookup[1]
               /\ rl_pc' = "snapshot"
               /\ UNCHANGED <<particle_cloud, n_particles, robot_pose, particle_pub>>
        /\ (rl_pc = "snapshot" /\ rl_pc' # "snapshot")
            => /\ rl_pc' = "idle"
               /\ UNCHANGED <<particle_cloud, n_particles, robot_pose, particle_pub>>
      ]_vars

\* C16: the idle cycle. With a population in place and no threshold exceeded,
\* run_loop consumes the scan and leaves the population, N, the pose estimate
\* and the stored snapshot unchanged, then publishes the particles stamped
\* with that scan and returns.
C16_IdleCycle ==
    [][ /\ (/\ LeavesLookup
            /\ rl_lookup[1] # <<>>
            /\ current_odom_xy_theta # <<>>
            /\ particle_cloud # <<>>
            /\ \A a \in 1..3 :
                   Abs(rl_lookup[1][a] - current_odom_xy_theta[a])
                       <= (IF a = 3 THEN a_thresh ELSE d_thresh))
               => /\ scan_to_process' = NoScan
                  /\ rl_pc' = "publish"
                  /\ UNCHANGED <<particle_cloud, n_particles, robot_pose,
                                 current_odom_xy_theta, particle_pub>>
        /\ (rl_pc = "publish" /\ rl_pc' # "publish")
               => /\ rl_pc' = "idle"
                  /\ particle_pub' = rl_msg.stamp
                  /\ particle_pub' > particle_pub
                  /\ UNCHANGED <<particle_cloud, n_particles, robot_pose,
                                 current_odom_xy_theta>>
      ]_vars

\* C16 witness: an idle cycle is about to publish, the robot having moved by
\* less than the thresholds since the stored snapshot
C16_Witness ==
    /\ rl_pc = "publish"
    /\ particle_cloud # <<>>
    /\ odom_pose # current_odom_xy_theta

\* C20: scan liveness. With the estimation thread scheduled fairly, and
\* provided the odometry lookup does not defer for ever (a lookup that can
\* return a pose or too-old eventually does), a pending scan eventually leaves
\* the slot, and an empty slot takes the next scan that arrives.
C20_PendingScanIsCleared ==
    /\ SF_vars(LookupResolves)
           => ((scan_to_process # NoScan) ~> (scan_to_process = NoScan))
    /\ [][(scan_to_process = NoScan /\ clock' # clock) => scan_to_process'.stamp = clock']_vars

\* C21: normalize_particles never divides by zero. Whenever either thread is
\* about to give a particle the uniform fallback weight (the sum it computed is
\* 0 and its loop has a particle left), n_particles is at least 1.
C21_FallbackCountPositive ==
    /\ (/\ rl_pc \in {"pose_norm", "rs_norm"}
        /\ rl_weight_sum = 0
        /\ rl_it.i + 1 <= Len(IterList(rl_it)))
           => n_particles >= 1
    /\ (/\ cb_pc = "init_norm"
        /\ cb_weight_sum = 0
        /\ cb_it.i + 1 <= Len(IterList(cb_it)))
           => n_particles >= 1

====
